---- MODULE Spec2Model ----
(***************************************************************************)
(* Model of src/activation_collector.py: the latent-extraction pipeline.   *)
(*                                                                         *)
(*   get_latents_for_batch  tokenises a batch, runs the encoder one layer  *)
(*                          at a time, applies the transcoder's per-layer  *)
(*                          transform, moves each latent tensor to the     *)
(*                          host, and re-assembles per-sequence arrays.    *)
(*   main                   checks the dataset, loads the models, filters  *)
(*                          and samples each target family, batches each   *)
(*                          group and writes one archive per group.        *)
(*                                                                         *)
(* Two specifications share the module:                                    *)
(*   SpecBatch  one call of get_latents_for_batch, statement by statement; *)
(*   Spec       main, with each call of get_latents_for_batch one step.    *)
(*                                                                         *)
(* Tensors keep the source's 0-based indices: a (B, T, H) tensor is a      *)
(* function [0..B-1 -> [0..T-1 -> cell]].  The encoder's and transcoder's  *)
(* weights are opaque, so a cell records where it came from (layer, row,   *)
(* token position, token) next to its sparse vector of length hidden_dim.  *)
(* Python lists and the axes of the returned arrays are sequences.         *)
(***************************************************************************)
EXTENDS Integers, Sequences, FiniteSets, TLC

\* ---------------------------------------------------------------- bounds
MaxLen == 2
MaxBatch == 2
MaxLayers == 2
hidden_dim == 2
MaxRows == 9
SmallSample == 2

\* ------------------------------------------------------ program constants
batch_size == 8
n_samples_default == 50
target_ids == <<"IPR000786", "IPR011584">>
GroupNames == <<"positives", "negatives">>

seed == 42

Min(a, b) == IF a < b THEN a ELSE b
Max(a, b) == IF a > b THEN a ELSE b

Null == "null"
\* a name not bound to a tensor yet
NoTensor == [dev |-> "none", layer |-> 0 - 1, data |-> <<>>]
Weights == {0, 1}
Devices == {"cuda", "cpu"}

\* ------------------------------------------------------------- sequences
Motif == <<"M", "K", "V", "L", "A">>
Residue(j) == Motif[(j % Len(Motif)) + 1]
\* a protein sequence of length L whose residues start at offset o of the motif
ProteinSeq(L, o) == [j \in 1..L |-> Residue(o + j)]
SeqPool == {ProteinSeq(L, 0) : L \in 0..MaxLen}

RECURSIVE ListsUpTo(_, _)
ListsUpTo(S, n) ==
  IF n = 0 THEN {<<>>}
  ELSE LET shorter == ListsUpTo(S, n - 1)
       IN  shorter \cup {Append(l, s) : l \in {m \in shorter : Len(m) = n - 1}, s \in S}

\* ------------------------------------------------------------- tokenizer
\* alphabet.get_batch_converter(): row b is <cls>, the residues, <eos>, then
\* <pad> up to T = longest sequence + 2.
MaxSeqLen(seqs) ==
  IF Len(seqs) = 0 THEN 0
  ELSE CHOOSE m \in {Len(seqs[i]) : i \in 1..Len(seqs)} :
         \A i \in 1..Len(seqs) : Len(seqs[i]) <= m

BatchConverter(seqs) ==
  LET T == MaxSeqLen(seqs) + 2
  IN  [b \in 0..(Len(seqs) - 1) |->
        [t \in 0..(T - 1) |->
          LET L == Len(seqs[b + 1])
          IN  IF t = 0 THEN "<cls>"
              ELSE IF t <= L THEN seqs[b + 1][t]
              ELSE IF t = L + 1 THEN "<eos>"
              ELSE "<pad>"]]

\* ------------------------------------------------- encoder and transcoder
TokCode(tok) ==
  CASE tok = "<cls>" -> 0
    [] tok = "<pad>" -> 1
    [] tok = "<eos>" -> 2
    [] tok = "M" -> 4
    [] tok = "K" -> 5
    [] OTHER -> 6

\* x = embed_scale * embed_tokens(batch_tokens): the hidden state before layer 0
Embed(tokens, dev) == [dev |-> dev, depth |-> 0, tokens |-> tokens]

\* x, _ = layer(x, ...): one more encoder layer applied
EsmLayer(x) == [x EXCEPT !.depth = @ + 1]

\* clt.encoders[layer_idx](clt.LN(layer_acts) - clt.b_pre[layer_idx]) + clt.b_enc[layer_idx]
\* at one (row, position): a vector of hidden_dim pre-activations, a fixed
\* function of the layer, the token and its position under weights w.
PreActs(x, layer_idx, w, b, t) ==
  [h \in 1..hidden_dim |->
     ((TokCode(x.tokens[b][t]) + (layer_idx + x.depth) * h + t + w * (h + 1)) % 4) - 1]

\* the k largest entries of v, ties to the lower index
TopKIndices(v, k) ==
  {h \in DOMAIN v :
     Cardinality({g \in DOMAIN v : v[g] > v[h] \/ (v[g] = v[h] /\ g < h)}) < k}

\* clt.topK_activation(pre_acts, k): keep the k highest, zero the rest
topK_activation(v, k) == [h \in DOMAIN v |-> IF h \in TopKIndices(v, k) THEN v[h] ELSE 0]

NonZero(v) == Cardinality({h \in DOMAIN v : v[h] # 0})

\* the k handed to clt.topK_activation
TopKArgDense(k_value) == hidden_dim
TopKArg(k_value) == k_value

\* latents = clt.topK_activation(pre_acts, k=k_value), a (B, T, H) tensor on x's device
CLTLatents(x, layer_idx, w, k_value) ==
  [dev |-> x.dev,
   layer |-> layer_idx,
   data |-> [b \in DOMAIN x.tokens |->
              [t \in DOMAIN x.tokens[b] |->
                 [layer |-> layer_idx, depth |-> x.depth, row |-> b, pos |-> t,
                  tok |-> x.tokens[b][t],
                  vec |-> topK_activation(PreActs(x, layer_idx, w, b, t), TopKArg(k_value))]]]]

\* tensor.cpu()
CpuKeep(tensor) == tensor
Cpu(tensor) == [tensor EXCEPT !.dev = "cpu"]

\* `for layer_idx, layer in enumerate(esm_model.layers): if layer_idx >= n_layers: break`
LoopContinuesNoBreak(layer_idx, n_enc, n_layers) == layer_idx < n_enc
LoopContinues(layer_idx, n_enc, n_layers) == layer_idx < n_enc /\ ~(layer_idx >= n_layers)

\* ------------------------------------------------------------ re-assembly
\* row[start:end] of a row over 0..T-1, with Python's clipping
Slice(row, start, end) ==
  LET T  == Cardinality(DOMAIN row)
      lo == Min(start, T)
      hi == Min(end, T)
  IN  [j \in 1..Max(hi - lo, 0) |-> row[lo + j - 1]]

start_idx == 1

EndIdxInclusive(seq_len) == start_idx + seq_len + 1
end_idx(seq_len) == start_idx + seq_len

RowOfFirst(b_idx) == 0
RowOf(b_idx) == b_idx

\* torch.stack([layers_data[l][b_idx, start_idx:end_idx, :] for l ...], dim=0)
SeqArray(layers_data, seqs, b_idx) ==
  [l \in 1..Len(layers_data) |->
     Slice(layers_data[l].data[RowOf(b_idx)], start_idx, end_idx(Len(seqs[b_idx + 1])))]

Shape(arr) == <<Len(arr), IF Len(arr) = 0 THEN 0 ELSE Len(arr[1]), hidden_dim>>

\* ------------------------------------ get_latents_for_batch as a function
RECURSIVE LayerLoop(_, _, _, _, _, _, _)
LayerLoop(x, layer_idx, layers_data, n_enc, n_layers, w, k_value) ==
  IF LoopContinues(layer_idx, n_enc, n_layers)
  THEN LET x1 == EsmLayer(x)
       IN  LayerLoop(x1, layer_idx + 1,
                     Append(layers_data, Cpu(CLTLatents(x1, layer_idx, w, k_value))),
                     n_enc, n_layers, w, k_value)
  ELSE layers_data

get_latents_for_batch(n_layers, n_enc, seqs, dev, k_value, w) ==
  LET layers_data == LayerLoop(Embed(BatchConverter(seqs), dev), 0, <<>>,
                               n_enc, n_layers, w, k_value)
  IN  [r \in 1..Len(seqs) |-> SeqArray(layers_data, seqs, r - 1)]

\* ------------------------------------------------------------------ state
VARIABLES
  clt,               \* the transcoder: [num_layers, k]
  esm_layers,        \* len(esm_model.layers)
  device,            \* --device
  w,                 \* the models' (opaque) weights
  \* one call of get_latents_for_batch
  fpc, ferror, batch_seqs, batch_tokens, x, layer_idx, latents, layers_data,
  b_idx, batch_results, result, esm_run, clt_indexed,
  \* main
  pc, error, df, n_samples, models_loaded, ti, gi, df_in, df_out, seqs, entries,
  i, all_latents_list, batches, files, write_log, visited, skipped

cfgVars == <<clt, esm_layers, device, w>>
callVars == <<fpc, ferror, batch_seqs, batch_tokens, x, layer_idx, latents, layers_data,
              b_idx, batch_results, result, esm_run, clt_indexed>>
mainVars == <<pc, error, df, n_samples, models_loaded, ti, gi, df_in, df_out, seqs,
              entries, i, all_latents_list, batches, files, write_log, visited, skipped>>
vars == <<cfgVars, callVars, mainVars>>

n_layers == clt.num_layers

CallIdle ==
  /\ fpc = "idle" /\ ferror = "none" /\ batch_seqs = <<>> /\ batch_tokens = <<>>
  /\ x = Null /\ layer_idx = 0 /\ latents = NoTensor /\ layers_data = <<>>
  /\ b_idx = 0 /\ batch_results = <<>> /\ result = Null
  /\ esm_run = {} /\ clt_indexed = {}

MainIdle ==
  /\ pc = "idle" /\ error = "none" /\ df = Null /\ n_samples = 0
  /\ models_loaded = FALSE /\ ti = 0 /\ gi = 0 /\ df_in = <<>> /\ df_out = <<>>
  /\ seqs = <<>> /\ entries = <<>> /\ i = 0 /\ all_latents_list = <<>>
  /\ batches = <<>> /\ files = <<>> /\ write_log = <<>>
  /\ visited = {} /\ skipped = {}

\* ------------------------------------------- get_latents_for_batch, by steps
InitBatch ==
  /\ clt \in [num_layers : 1..MaxLayers, k : 1..hidden_dim]
  /\ esm_layers \in 1..MaxLayers
  /\ device \in Devices
  /\ w \in Weights
  /\ batch_seqs \in {l \in ListsUpTo(SeqPool, MaxBatch) : Len(l) > 0}
  /\ fpc = "tokenize" /\ ferror = "none" /\ batch_tokens = <<>>
  /\ x = Null /\ layer_idx = 0 /\ latents = NoTensor /\ layers_data = <<>>
  /\ b_idx = 0 /\ batch_results = <<>> /\ result = Null
  /\ esm_run = {} /\ clt_indexed = {}
  /\ MainIdle

\* lines 42-49: tokens, mask, embedding, transpose
Tokenize ==
  /\ fpc = "tokenize"
  /\ batch_tokens' = BatchConverter(batch_seqs)
  /\ x' = Embed(BatchConverter(batch_seqs), device)
  /\ layer_idx' = 0
  /\ fpc' = "loop"
  /\ UNCHANGED <<ferror, batch_seqs, latents, layers_data, b_idx, batch_results,
                 result, esm_run, clt_indexed>>
  /\ UNCHANGED <<cfgVars, mainVars>>

\* lines 52-53: the next encoder layer, unless the transcoder has no more
LoopEnter ==
  /\ fpc = "loop"
  /\ LoopContinues(layer_idx, esm_layers, n_layers)
  /\ fpc' = "esm"
  /\ UNCHANGED <<ferror, batch_seqs, batch_tokens, x, layer_idx, latents, layers_data,
                 b_idx, batch_results, result, esm_run, clt_indexed>>
  /\ UNCHANGED <<cfgVars, mainVars>>

LoopExit ==
  /\ fpc = "loop"
  /\ ~LoopContinues(layer_idx, esm_layers, n_layers)
  /\ fpc' = "reassemble"
  /\ b_idx' = 0
  /\ batch_results' = <<>>
  /\ UNCHANGED <<ferror, batch_seqs, batch_tokens, x, layer_idx, latents, layers_data,
                 result, esm_run, clt_indexed>>
  /\ UNCHANGED <<cfgVars, mainVars>>

\* lines 56-59: one encoder layer forward
EsmForward ==
  /\ fpc = "esm"
  /\ x' = EsmLayer(x)
  /\ esm_run' = esm_run \cup {layer_idx}
  /\ fpc' = "clt"
  /\ UNCHANGED <<ferror, batch_seqs, batch_tokens, layer_idx, latents, layers_data,
                 b_idx, batch_results, result, clt_indexed>>
  /\ UNCHANGED <<cfgVars, mainVars>>

\* lines 63-70: clt.b_pre[layer_idx], clt.encoders[layer_idx], clt.b_enc[layer_idx]
\* (each of length clt.num_layers: a larger index raises IndexError), then top-k
CLTEncode ==
  /\ fpc = "clt"
  /\ clt_indexed' = clt_indexed \cup {layer_idx}
  /\ IF layer_idx < n_layers
     THEN /\ latents' = CLTLatents(x, layer_idx, w, clt.k)
          /\ fpc' = "cpu"
          /\ ferror' = ferror
     ELSE /\ latents' = latents
          /\ fpc' = "raised"
          /\ ferror' = "IndexError"
  /\ UNCHANGED <<batch_seqs, batch_tokens, x, layer_idx, layers_data,
                 b_idx, batch_results, result, esm_run>>
  /\ UNCHANGED <<cfgVars, mainVars>>

\* line 73: layers_data.append(latents.cpu()); the loop moves to the next layer
ToCpu ==
  /\ fpc = "cpu"
  /\ layers_data' = Append(layers_data, Cpu(latents))
  /\ layer_idx' = layer_idx + 1
  /\ fpc' = "loop"
  /\ UNCHANGED <<ferror, batch_seqs, batch_tokens, x, latents,
                 b_idx, batch_results, result, esm_run, clt_indexed>>
  /\ UNCHANGED <<cfgVars, mainVars>>

\* lines 80-105: one sequence; torch.stack of an empty list raises
ReassembleOne ==
  /\ fpc = "reassemble"
  /\ b_idx < Len(batch_seqs)
  /\ IF Len(layers_data) > 0
     THEN /\ batch_results' = Append(batch_results, SeqArray(layers_data, batch_seqs, b_idx))
          /\ b_idx' = b_idx + 1
          /\ fpc' = fpc
          /\ ferror' = ferror
     ELSE /\ batch_results' = batch_results
          /\ b_idx' = b_idx
          /\ fpc' = "raised"
          /\ ferror' = "RuntimeError"
  /\ UNCHANGED <<batch_seqs, batch_tokens, x, layer_idx, latents, layers_data,
                 result, esm_run, clt_indexed>>
  /\ UNCHANGED <<cfgVars, mainVars>>

\* line 107
Return ==
  /\ fpc = "reassemble"
  /\ b_idx >= Len(batch_seqs)
  /\ result' = batch_results
  /\ fpc' = "done"
  /\ UNCHANGED <<ferror, batch_seqs, batch_tokens, x, layer_idx, latents, layers_data,
                 b_idx, batch_results, esm_run, clt_indexed>>
  /\ UNCHANGED <<cfgVars, mainVars>>

NextBatch ==
  \/ Tokenize
  \/ LoopEnter
  \/ LoopExit
  \/ EsmForward
  \/ CLTEncode
  \/ ToCpu
  \/ ReassembleOne
  \/ Return

SpecBatch == InitBatch /\ [][NextBatch]_vars

\* ------------------------------------------------------------------ main
\* the dataset: N rows; the first a rows belong to the first target family, the
\* last b rows to the second; other rows carry another family or no value
OtherFamily == "IPR001478"
InterProOf(idx, N, a, b) ==
  LET ids == {target_ids[1] : u \in {v \in {idx} : v <= a}}
               \cup {target_ids[2] : u \in {v \in {idx} : v > N - b}}
               \cup {OtherFamily : u \in {v \in {idx} : v % 2 = 0}}
  IN  [null |-> ids = {}, ids |-> ids]

DataRow(idx, N, a, b) ==
  [Entry    |-> idx,
   Sequence |-> ProteinSeq(idx % (MaxLen + 1), idx \div (MaxLen + 1)),
   InterPro |-> InterProOf(idx, N, a, b)]

Dataset(N, a, b, hasColumn) ==
  IF hasColumn
  THEN [columns |-> {"Entry", "Sequence", "InterPro"},
        rows    |-> [idx \in 1..N |-> DataRow(idx, N, a, b)]]
  ELSE [columns |-> {"Entry", "Sequence"},
        rows    |-> [idx \in 1..N |->
                       [DataRow(idx, N, a, b) EXCEPT !.InterPro = [null |-> TRUE, ids |-> {}]]]]

\* `if "InterPro" not in df.columns: raise ValueError`
MissingInterProIgnored(frame) == FALSE
MissingInterPro(frame) == "InterPro" \notin frame.columns

\* df["InterPro"].str.contains(target_id).fill_null(False)
HasId(row, target_id) == IF row.InterPro.null THEN FALSE ELSE target_id \in row.InterPro.ids

GroupIn(frame, target_id) ==
  LET Test(row) == HasId(row, target_id) IN SelectSeq(frame.rows, Test)
GroupOut(frame, target_id) ==
  LET Test(row) == ~HasId(row, target_id) IN SelectSeq(frame.rows, Test)

\* the seeded shuffle: a fixed permutation of the rows
Shuffle(rows) ==
  [j \in 1..Len(rows) |-> rows[((Len(rows) - j + seed) % Len(rows)) + 1]]

\* group.sample(n=n, shuffle=True, seed=42)
Sample(rows, n) == SubSeq(Shuffle(rows), 1, n)

\* `if len(group_in) == 0: ... continue`
SkipNever(group_in) == FALSE
SkipTarget(group_in) == Len(group_in) = 0

Column(rows, name) == [j \in 1..Len(rows) |-> rows[j][name]]

\* seqs[i : i + batch_size]
BatchSliceShort(list, from) == SubSeq(list, from + 1, Min(from + batch_size - 1, Len(list)))
BatchSlice(list, from) == SubSeq(list, from + 1, Min(from + batch_size, Len(list)))

\* all_latents_list.extend(batch_results)
ExtendFront(list, batch) == batch \o list
Extend(list, batch) == list \o batch

\* the archive is written once the batch loop has ended
SaveInsideLoop(from, list) == TRUE
SaveReady(from, list) == from >= Len(list)

\* activations_obj = np.empty(len(all_latents_list), dtype=object), filled in order
ObjectArray(list) == [idx \in 1..Len(list) |-> list[idx]]

FileKey(name, target_id) == <<name, target_id>>
CurrentKey == FileKey(GroupNames[gi + 1], target_ids[ti + 1])

Init ==
  /\ clt \in [num_layers : 1..MaxLayers, k : {1, hidden_dim}]
  /\ esm_layers \in {1, MaxLayers}
  /\ device = "cuda"
  /\ w \in {0}
  /\ CallIdle
  /\ \E N \in 0..MaxRows : \E a \in 0..N : \E b \in {0, 1, N} \cap 0..N :
       \E hasColumn \in BOOLEAN :
         df = Dataset(N, a, b, hasColumn)
  /\ n_samples \in {SmallSample, n_samples_default}
  /\ pc = "start" /\ error = "none" /\ models_loaded = FALSE
  /\ ti = 0 /\ gi = 0 /\ df_in = <<>> /\ df_out = <<>>
  /\ seqs = <<>> /\ entries = <<>> /\ i = 0 /\ all_latents_list = <<>>
  /\ batches = <<>> /\ files = <<>> /\ write_log = <<>>
  /\ visited = {} /\ skipped = {}

\* lines 118-125: read the dataset, check the column
LoadData ==
  /\ pc = "start"
  /\ IF MissingInterPro(df)
     THEN pc' = "failed" /\ error' = "ValueError"
     ELSE pc' = "load_models" /\ error' = error
  /\ UNCHANGED <<df, n_samples, models_loaded, ti, gi, df_in, df_out, seqs, entries, i,
                 all_latents_list, batches, files, write_log, visited, skipped>>
  /\ UNCHANGED <<cfgVars, callVars>>

\* lines 130-138
LoadModels ==
  /\ pc = "load_models"
  /\ models_loaded' = TRUE
  /\ ti' = 0
  /\ pc' = "target"
  /\ UNCHANGED <<error, df, n_samples, gi, df_in, df_out, seqs, entries, i,
                 all_latents_list, batches, files, write_log, visited, skipped>>
  /\ UNCHANGED <<cfgVars, callVars>>

\* lines 142-164: filter, skip a target without matches, else sample both groups
FilterTarget ==
  /\ pc = "target"
  /\ ti < Len(target_ids)
  /\ LET target_id == target_ids[ti + 1]
         group_in  == GroupIn(df, target_id)
         group_out == GroupOut(df, target_id)
     IN  /\ visited' = visited \cup {target_id}
         /\ IF SkipTarget(group_in)
            THEN /\ skipped' = skipped \cup {target_id}
                 /\ ti' = ti + 1
                 /\ pc' = "target"
                 /\ UNCHANGED <<df_in, df_out, gi>>
            ELSE /\ df_in' = Sample(group_in, Min(Len(group_in), n_samples))
                 /\ df_out' = Sample(group_out, Min(Len(group_out), n_samples))
                 /\ gi' = 0
                 /\ pc' = "group"
                 /\ UNCHANGED <<skipped, ti>>
  /\ UNCHANGED <<error, df, n_samples, models_loaded, seqs, entries, i,
                 all_latents_list, batches, files, write_log>>
  /\ UNCHANGED <<cfgVars, callVars>>

\* line 142: the target list is exhausted
Finish ==
  /\ pc = "target"
  /\ ti >= Len(target_ids)
  /\ pc' = "done"
  /\ UNCHANGED <<error, df, n_samples, models_loaded, ti, gi, df_in, df_out, seqs, entries,
                 i, all_latents_list, batches, files, write_log, visited, skipped>>
  /\ UNCHANGED <<cfgVars, callVars>>

\* lines 167-174: the next group of the target
GroupStart ==
  /\ pc = "group"
  /\ gi < Len(GroupNames)
  /\ LET dataframe == IF gi = 0 THEN df_in ELSE df_out
     IN  /\ seqs' = Column(dataframe, "Sequence")
         /\ entries' = Column(dataframe, "Entry")
  /\ all_latents_list' = <<>>
  /\ batches' = <<>>
  /\ i' = 0
  /\ pc' = "batch"
  /\ UNCHANGED <<error, df, n_samples, models_loaded, ti, gi, df_in, df_out,
                 files, write_log, visited, skipped>>
  /\ UNCHANGED <<cfgVars, callVars>>

\* line 167: both groups done, on to the next target
NextTarget ==
  /\ pc = "group"
  /\ gi >= Len(GroupNames)
  /\ ti' = ti + 1
  /\ pc' = "target"
  /\ UNCHANGED <<error, df, n_samples, models_loaded, gi, df_in, df_out, seqs, entries,
                 i, all_latents_list, batches, files, write_log, visited, skipped>>
  /\ UNCHANGED <<cfgVars, callVars>>

\* lines 176-180: one batch
ProcessBatch ==
  /\ pc = "batch"
  /\ i < Len(seqs)
  /\ LET batch == BatchSlice(seqs, i)
         batch_out == get_latents_for_batch(n_layers, esm_layers, batch, device, clt.k, w)
     IN  /\ all_latents_list' = Extend(all_latents_list, batch_out)
         /\ batches' = Append(batches, batch)
  /\ i' = i + batch_size
  /\ UNCHANGED <<pc, error, df, n_samples, models_loaded, ti, gi, df_in, df_out, seqs,
                 entries, files, write_log, visited, skipped>>
  /\ UNCHANGED <<cfgVars, callVars>>

\* line 179: the call raises (the device runs out of memory, say); main ends
BatchRaises ==
  /\ pc = "batch"
  /\ i < Len(seqs)
  /\ pc' = "failed"
  /\ error' = "RuntimeError"
  /\ UNCHANGED <<df, n_samples, models_loaded, ti, gi, df_in, df_out, seqs, entries, i,
                 all_latents_list, batches, files, write_log, visited, skipped>>
  /\ UNCHANGED <<cfgVars, callVars>>

\* lines 185-197: np.savez_compressed(out_file, activations, entries, sequences)
SaveArchive ==
  /\ pc = "batch"
  /\ SaveReady(i, seqs)
  /\ LET archive == [activations |-> ObjectArray(all_latents_list),
                     entries     |-> entries,
                     sequences   |-> seqs]
     IN  files' = [key \in DOMAIN files \cup {CurrentKey} |->
                     IF key = CurrentKey THEN archive ELSE files[key]]
  /\ write_log' = Append(write_log, CurrentKey)
  /\ gi' = gi + 1
  /\ pc' = "group"
  /\ UNCHANGED <<error, df, n_samples, models_loaded, ti, df_in, df_out, seqs, entries, i,
                 all_latents_list, batches, visited, skipped>>
  /\ UNCHANGED <<cfgVars, callVars>>

Next ==
  \/ LoadData
  \/ LoadModels
  \/ FilterTarget
  \/ Finish
  \/ GroupStart
  \/ NextTarget
  \/ ProcessBatch
  \/ BatchRaises
  \/ SaveArchive

Spec == Init /\ [][Next]_vars

\* ------------------------------------------------- claims on SpecBatch
Returned == fpc = "done"
ProducedLayers == Min(n_layers, esm_layers)
Markers == {"<cls>", "<eos>", "<pad>"}

\* every layer's slice of array arr has n positions
SecondAxis(arr, n) == \A l \in 1..Len(arr) : Len(arr[l]) = n

\* array arr holds token positions 1..L of sequence s, and only residues
HoldsResidues(arr, s) ==
  \A l \in 1..Len(arr) : \A j \in 1..Len(arr[l]) :
    /\ arr[l][j].pos = j
    /\ j <= Len(s)
    /\ arr[l][j].tok = s[j]
    /\ arr[l][j].tok \notin Markers

\* C1 as stated: every returned array has shape (n_layers, L, hidden_dim),
\* n_layers the transcoder's num_layers, and holds token positions 1..L of its
\* sequence (no marker, no padding).
C1_ShapeWithRequestedLayers ==
  Returned =>
    \A r \in 1..Len(batch_seqs) :
      /\ Shape(result[r]) = <<n_layers, Len(batch_seqs[r]), hidden_dim>>
      /\ SecondAxis(result[r], Len(batch_seqs[r]))
      /\ HoldsResidues(result[r], batch_seqs[r])

\* C1 amended: every returned array has shape (min(n_layers, encoder layers),
\* L, hidden_dim): its second axis is exactly L in every layer, and it holds
\* token positions 1..L of its sequence (no marker, no padding).
C1_MarkerStripping ==
  Returned =>
    \A r \in 1..Len(batch_seqs) :
      /\ Shape(result[r]) = <<ProducedLayers, Len(batch_seqs[r]), hidden_dim>>
      /\ SecondAxis(result[r], Len(batch_seqs[r]))
      /\ HoldsResidues(result[r], batch_seqs[r])

\* a returned batch with a padded row: two sequences of different lengths,
\* the shorter one non-empty
C1_Witness ==
  /\ Returned
  /\ \E r, q \in 1..Len(batch_seqs) :
       /\ 0 < Len(batch_seqs[r])
       /\ Len(batch_seqs[r]) < Len(batch_seqs[q])
       /\ Len(result[r][1]) = Len(batch_seqs[r])
       /\ Len(result[q][1]) = Len(batch_seqs[q])

\* C4: one output array per input sequence, in the input's order: while
\* re-assembling, b_idx arrays are held; the returned list is as long as the
\* batch; and the array at position b is made of cells of row b.
C4_OnePerSequence ==
  /\ fpc = "reassemble" => Len(batch_results) = b_idx
  /\ Returned =>
       /\ Len(result) = Len(batch_seqs)
       /\ \A r \in 1..Len(result) :
            /\ Len(result[r]) = Len(layers_data)
            /\ \A l \in 1..Len(result[r]) : \A j \in 1..Len(result[r][l]) :
                 /\ result[r][l][j].row = r - 1
                 /\ result[r][l][j] = layers_data[l].data[r - 1][j]

\* a returned batch of two non-empty sequences
C4_Witness ==
  /\ Returned
  /\ Len(result) = 2
  /\ Len(batch_seqs[1]) > 0
  /\ Len(batch_seqs[2]) > 0
  /\ result[2][1][1].row = 1

\* C7: the layer loop produces exactly min(n_layers, E) tensors, runs only
\* encoder layers below that, indexes the transcoder's per-layer parameters only
\* below that, and raises nothing; with n_layers <= E the list has length
\* n_layers and no encoder layer >= n_layers runs.
C7_StopsAtEncoderMaximum ==
  /\ ferror = "none"
  /\ fpc # "raised"
  /\ clt_indexed \subseteq 0..(ProducedLayers - 1)
  /\ esm_run \subseteq 0..(ProducedLayers - 1)
  /\ Len(layers_data) <= ProducedLayers
  /\ fpc \in {"reassemble", "done"} =>
       /\ Len(layers_data) = ProducedLayers
       /\ clt_indexed = 0..(ProducedLayers - 1)
       /\ n_layers <= esm_layers => Len(layers_data) = n_layers

\* more layers requested than the encoder has, and the call returned
C7_Witness ==
  /\ Returned
  /\ n_layers > esm_layers
  /\ Len(layers_data) = esm_layers
  /\ ferror = "none"

C7_WitnessFewer ==
  /\ Returned
  /\ n_layers < esm_layers
  /\ Len(layers_data) = n_layers

\* C9: every latent vector of every re-assembled array has at most k nonzero
\* entries, k the transcoder's sparsity; so has every vector it was sliced from.
C9_Sparsity ==
  /\ \A r \in 1..Len(batch_results) :
       \A l \in 1..Len(batch_results[r]) : \A j \in 1..Len(batch_results[r][l]) :
         /\ Len(batch_results[r][l][j].vec) = hidden_dim
         /\ NonZero(batch_results[r][l][j].vec) <= clt.k
  /\ \A l \in 1..Len(layers_data) :
       \A b \in DOMAIN layers_data[l].data : \A t \in DOMAIN layers_data[l].data[b] :
         NonZero(layers_data[l].data[b][t].vec) <= clt.k

\* a re-assembled vector with exactly k nonzero entries, k below hidden_dim,
\* whose pre-activation had more
C9_Witness ==
  /\ Returned
  /\ clt.k < hidden_dim
  /\ \E r \in 1..Len(result) : \E l \in 1..Len(result[r]) : \E j \in 1..Len(result[r][l]) :
       /\ NonZero(result[r][l][j].vec) = clt.k
       /\ NonZero(PreActs([tokens |-> batch_tokens, depth |-> result[r][l][j].depth],
                          result[r][l][j].layer, w, r - 1, j)) > clt.k

\* the layers whose latent tensor is on the accelerator
DeviceResident ==
  {t.layer : t \in {u \in {latents} : u.dev = "cuda"}}
    \cup {layers_data[l].layer : l \in {m \in 1..Len(layers_data) : layers_data[m].dev = "cuda"}}

\* C10: at most one layer's latent tensor is on the accelerator at any point;
\* when an encoder layer is about to run every latent tensor computed so far
\* is on the host; after iteration layer_idx the host list holds
\* layer_idx + 1 tensors, in ascending layer order.
C10_MemoryStaging ==
  /\ Cardinality(DeviceResident) <= 1
  /\ \A l \in 1..Len(layers_data) :
       /\ layers_data[l].dev = "cpu"
       /\ layers_data[l].layer = l - 1
  /\ fpc \in {"loop", "esm", "clt", "cpu"} => Len(layers_data) = layer_idx
  /\ fpc \in {"loop", "esm"} =>
       clt_indexed = {layers_data[l].layer : l \in 1..Len(layers_data)}

\* on the accelerator, the second layer's latents are computed while the first
\* layer's are already on the host
C10_Witness ==
  /\ device = "cuda"
  /\ fpc = "cpu"
  /\ layer_idx = 1
  /\ latents.dev = "cuda"
  /\ DeviceResident = {1}
  /\ Len(layers_data) = 1

\* ------------------------------------------------------ claims on Spec
RECURSIVE Flatten(_)
Flatten(lists) == IF Len(lists) = 0 THEN <<>> ELSE Head(lists) \o Flatten(Tail(lists))

CeilDiv(n, d) == (n + d - 1) \div d

Targets == {target_ids[j] : j \in 1..Len(target_ids)}
Groups == {GroupNames[j] : j \in 1..Len(GroupNames)}
NoMatches(target_id) == Len(GroupIn(df, target_id)) = 0
LoopEnded == pc = "batch" /\ i >= Len(seqs)

\* C2: in every archive, activations, entries and sequences have the same
\* length; entry and sequence at an index are those of one sampled row;
\* activations[idx] has second axis len(sequences[idx]) in every layer and is
\* made of the cells of the residues of sequences[idx], in order.
C2_ArchiveParallel ==
  \A key \in DOMAIN files :
    LET ar == files[key]
    IN  /\ Len(ar.activations) = Len(ar.entries)
        /\ Len(ar.entries) = Len(ar.sequences)
        /\ \A idx \in 1..Len(ar.sequences) :
             /\ \E r \in 1..Len(df.rows) :
                  /\ df.rows[r].Entry = ar.entries[idx]
                  /\ df.rows[r].Sequence = ar.sequences[idx]
             /\ idx <= Len(ar.activations) =>
                  /\ Shape(ar.activations[idx])[2] = Len(ar.sequences[idx])
                  /\ SecondAxis(ar.activations[idx], Len(ar.sequences[idx]))
                  /\ HoldsResidues(ar.activations[idx], ar.sequences[idx])

\* an archive of a group that took two batches, holding sequences of
\* different lengths
C2_Witness ==
  \E key \in DOMAIN files :
    /\ Len(files[key].activations) > batch_size
    /\ \E p, q \in 1..Len(files[key].sequences) :
         /\ Len(files[key].sequences[p]) # Len(files[key].sequences[q])
         /\ Len(files[key].activations[p][1]) = Len(files[key].sequences[p])
         /\ Len(files[key].activations[q][1]) = Len(files[key].sequences[q])

\* C3: the batches taken so far are the consecutive slices of seqs of size
\* batch_size, in order; when the loop has ended there are ceil(N / batch_size)
\* of them, their concatenation is seqs, each has batch_size sequences but
\* possibly the last, which is not empty.
C3_Batching ==
  pc = "batch" =>
    /\ \A j \in 1..Len(batches) :
         /\ batches[j] = SubSeq(seqs, (j - 1) * batch_size + 1, Min(j * batch_size, Len(seqs)))
         /\ Len(batches[j]) > 0
         /\ Len(batches[j]) <= batch_size
         /\ j < Len(batches) => Len(batches[j]) = batch_size
    /\ Flatten(batches) = SubSeq(seqs, 1, Min(i, Len(seqs)))
    /\ i = Len(batches) * batch_size
    /\ LoopEnded =>
         /\ Len(batches) = CeilDiv(Len(seqs), batch_size)
         /\ Flatten(batches) = seqs
         /\ \A j \in 1..(Len(batches) - 1) : Len(batches[j]) = batch_size

\* the loop ended after two batches, the last one shorter
C3_Witness ==
  /\ LoopEnded
  /\ Len(batches) = 2
  /\ Len(batches[1]) = batch_size
  /\ Len(batches[2]) < batch_size
  /\ Flatten(batches) = seqs

C3_WitnessNone ==
  /\ LoopEnded
  /\ Len(seqs) = 0
  /\ Len(batches) = 0

RECURSIVE RunBatches(_, _)
RunBatches(list, from) ==
  IF from >= Len(list) THEN <<>>
  ELSE get_latents_for_batch(n_layers, esm_layers,
                             SubSeq(list, from + 1, Min(from + batch_size, Len(list))),
                             device, clt.k, w)
         \o RunBatches(list, from + batch_size)

ArchiveOf(name, target_id) ==
  LET group == IF name = GroupNames[1] THEN GroupIn(df, target_id) ELSE GroupOut(df, target_id)
      frame == Sample(group, Min(Len(group), n_samples))
  IN  [activations |-> RunBatches(Column(frame, "Sequence"), 0),
       entries     |-> Column(frame, "Entry"),
       sequences   |-> Column(frame, "Sequence")]

\* C6: a target without matching rows gets no archive, is skipped without an
\* error, and main moves on to the next target; every archive written is the
\* one its target and group alone determine, and at the end every target with
\* matches has both of its archives.
C6_EmptyTargetSkipped ==
  /\ \A key \in DOMAIN files :
       /\ key[2] \in Targets
       /\ key[1] \in Groups
       /\ ~NoMatches(key[2])
       /\ pc = "done" => files[key] = ArchiveOf(key[1], key[2])
  /\ (pc = "group" /\ gi >= 1) =>
       /\ FileKey(GroupNames[gi], target_ids[ti + 1]) \in DOMAIN files
       /\ files[FileKey(GroupNames[gi], target_ids[ti + 1])]
            = ArchiveOf(GroupNames[gi], target_ids[ti + 1])
  /\ \A j \in 1..Len(target_ids) :
       (target_ids[j] \in visited /\ NoMatches(target_ids[j])) =>
         /\ target_ids[j] \in skipped
         /\ ti >= j
         /\ (ti = j /\ pc = "target") => error = "none"
  /\ \A target_id \in skipped : NoMatches(target_id)
  /\ (pc = "failed" /\ "InterPro" \in df.columns) =>
       /\ ti < Len(target_ids)
       /\ ~NoMatches(target_ids[ti + 1])
  /\ pc = "done" =>
       DOMAIN files = {FileKey(name, target_id) :
                         name \in Groups, target_id \in {t \in Targets : ~NoMatches(t)}}

\* the first target has no matches, the second has, and main is done with the
\* second target's two archives written
C6_Witness ==
  /\ pc = "done"
  /\ NoMatches(target_ids[1])
  /\ skipped = {target_ids[1]}
  /\ DOMAIN files = {FileKey(name, target_ids[2]) : name \in Groups}
  /\ Len(files[FileKey(GroupNames[1], target_ids[2])].sequences) > 0

\* C8: without the InterPro column main fails with ValueError before anything
\* else: no model is loaded, no target is filtered or sampled, no batch is
\* extracted, no archive is written.
C8_MissingColumnFatal ==
  "InterPro" \notin df.columns =>
    /\ pc \in {"start", "failed"}
    /\ pc = "failed" => error = "ValueError"
    /\ models_loaded = FALSE
    /\ visited = {} /\ skipped = {}
    /\ df_in = <<>> /\ df_out = <<>>
    /\ batches = <<>> /\ all_latents_list = <<>>
    /\ files = <<>> /\ write_log = <<>>

\* a dataset with rows and no InterPro column, and main has failed
C8_Witness ==
  /\ "InterPro" \notin df.columns
  /\ Len(df.rows) > 0
  /\ pc = "failed"
  /\ error = "ValueError"

====
